---- MODULE Spec2Model ----
(***************************************************************************)
(* State-machine model of importer/v8/importer.go: the v8 Importer that    *)
(* scans a dump (processDDL, then processDML), batches the data lines      *)
(* (batchAccumulator) and writes each batch through the rate throttle      *)
(* (batchWrite).  Lines are strings; the code's string functions are       *)
(* operators over them.  The clock is an integer number of clock units,    *)
(* UnitsPerSecond of them to the second, and reads 0 when Import primes     *)
(* lastWrite; it advances where the code reads it again (time.Since,       *)
(* time.Now in batchWrite) by a nondeterministic amount, zero included.    *)
(* Spec runs the Importer on streams over Lines with and without          *)
(* overrides; WideSpec runs it on directives whose value holds colons and  *)
(* with a negative limit; LiveSpec runs it under a positive limit with a   *)
(* clock that keeps advancing while a flush waits.                         *)
(***************************************************************************)
EXTENDS Integers, Sequences, FiniteSets, TLC

\* ------------------------------------------------------------- bounds
\* Capacity of the batch (const batchSize = 5000 in the source, scaled).
batchSize == 2
\* Most lines the scanner returns in one run.
MaxLines == 4
\* Last clock reading of a run, in clock units.
MaxClock == 2
\* Clock units to the second.
UnitsPerSecond == 2

\* ------------------------------------------------------------- inputs
\* The lines an input stream is made of: the data-section marker, a schema
\* command, a whitespace-only line, the two context directives, a point.
\* After the marker the schema command is one more data line.
Lines ==
  { "# DML", "CREATE DATABASE foo", " ",
    "# CONTEXT-DATABASE: foo", "# CONTEXT-RETENTION-POLICY: rp1",
    "m v=1" }

\* Config.PPS, Config.DestinationDatabase, Config.RetentionPolicy.
PPSValues == {0, 2}
DatabaseOverrides == {"", "bar"}
RetentionOverrides == {"", "rpo"}

\* How Import's set-up ends: every step succeeds, or the client cannot be
\* created, the ping fails, Path is empty, the file or the gzip stream
\* cannot be opened.
SetupOutcomes == {"ok", "client", "ping", "path", "open", "gzip"}

\* ------------------------------------------------------------- strings
\* strings.HasPrefix
HasPrefix(s, p) == Len(s) >= Len(p) /\ SubSeq(s, 1, Len(p)) = p

\* unicode.IsSpace, on the characters a scanned line can hold here.
IsSpace(c) == c \in {" ", "\t", "\r"}

RECURSIVE TrimLeft(_)
TrimLeft(s) ==
  IF Len(s) > 0 /\ IsSpace(SubSeq(s, 1, 1)) THEN TrimLeft(SubSeq(s, 2, Len(s))) ELSE s

RECURSIVE TrimRight(_)
TrimRight(s) ==
  IF Len(s) > 0 /\ IsSpace(SubSeq(s, Len(s), Len(s)))
  THEN TrimRight(SubSeq(s, 1, Len(s) - 1)) ELSE s

\* strings.TrimSpace
TrimSpace(s) == TrimRight(TrimLeft(s))

\* strings.Index for a one-character separator: 0 when absent.
RECURSIVE IndexFrom(_, _, _)
IndexFrom(s, c, i) ==
  IF i > Len(s) THEN 0
  ELSE IF SubSeq(s, i, i) = c THEN i ELSE IndexFrom(s, c, i + 1)

Index(s, c) == IndexFrom(s, c, 1)

\* strings.Split for a one-character separator: all the pieces, in order.
RECURSIVE Split(_, _)
Split(s, c) ==
  LET i == Index(s, c)
  IN  IF i = 0 THEN <<s>>
      ELSE <<SubSeq(s, 1, i - 1)>> \o Split(SubSeq(s, i + 1, Len(s)), c)

\* strings.Join
RECURSIVE Join(_, _)
Join(ss, sep) ==
  IF ss = <<>> THEN ""
  ELSE IF Len(ss) = 1 THEN ss[1]
  ELSE ss[1] \o sep \o Join(Tail(ss), sep)

\* ------------------------------------------------------------- state
VARIABLES
  pc,                    \* where Import stands
  config,                \* Importer.config: PPS, DestinationDatabase, RetentionPolicy
  consumed,              \* the lines scanner.Scan has returned, in order
  scanEnd,               \* "" while the scanner can go on, "stopped" once Scan
                         \* has returned false, "eof" or "err" once Err is read
  database,              \* Importer.database
  retentionPolicy,       \* Importer.retentionPolicy
  createDatabaseQuery,   \* Importer.createDatabaseQuery
  batch,                 \* Importer.batch
  totalInserts,          \* Importer.totalInserts
  failedInserts,         \* Importer.failedInserts
  totalCommands,         \* Importer.totalCommands
  throttlePointsWritten, \* Importer.throttlePointsWritten
  lastWrite,             \* Importer.lastWrite
  now,                   \* the clock's last reading
  caller,                \* the call site of the batchWrite under way
  flushes,               \* calls of batchWrite from its two call sites
  queries,               \* the transport's Query calls, in order
  writes,                \* the transport's WriteLineProtocol calls, in order
  stdout,                \* the text printed to standard output
  summary,               \* the deferred log lines of the final counters
  result                 \* what Import returned

vars ==
  << pc, config, consumed, scanEnd, database, retentionPolicy,
     createDatabaseQuery, batch, totalInserts, failedInserts, totalCommands,
     throttlePointsWritten, lastWrite, now, caller, flushes, queries, writes,
     stdout, summary, result >>

importerVars ==
  << database, retentionPolicy, createDatabaseQuery, batch, totalInserts,
     failedInserts, totalCommands, throttlePointsWritten, lastWrite >>

outputVars == << queries, writes, stdout, summary, result >>

\* NewImporter: the zero Importer with its config, one of configs.
InitWith(configs) ==
  /\ pc = "start"
  /\ config \in configs
  /\ consumed = <<>>
  /\ scanEnd = ""
  /\ database = ""
  /\ retentionPolicy = ""
  /\ createDatabaseQuery = ""
  /\ batch = <<>>
  /\ totalInserts = 0
  /\ failedInserts = 0
  /\ totalCommands = 0
  /\ throttlePointsWritten = 0
  /\ lastWrite = 0
  /\ now = 0
  /\ caller = ""
  /\ flushes = 0
  /\ queries = <<>>
  /\ writes = <<>>
  /\ stdout = ""
  /\ summary = <<>>
  /\ result = "running"

Init ==
  InitWith([PPS : PPSValues,
            DestinationDatabase : DatabaseOverrides,
            RetentionPolicy : RetentionOverrides])

\* ------------------------------------------------------------- Import
\* The deferred function of Import: the three counter lines, logged only
\* when totalInserts is positive.
DeferredSummary(commands, inserts, failed) ==
  IF inserts > 0
  THEN << "Processed " \o ToString(commands) \o " commands",
          "Processed " \o ToString(inserts) \o " inserts",
          "Failed " \o ToString(failed) \o " inserts" >>
  ELSE <<>>

\* Import up to the scanner: client, ping, Path, os.Open, gzip.NewReader.
\* The client and Path failures return before the defer is registered, the
\* open failures after it (no insert has happened: it logs nothing).
ImportSetup ==
  /\ pc = "start"
  /\ \E outcome \in SetupOutcomes :
       IF outcome = "ok"
       THEN /\ pc' = "ddl"
            /\ result' = result
       ELSE /\ pc' = "done"
            /\ result' = "error: " \o outcome
  /\ UNCHANGED << config, consumed, scanEnd, importerVars, now, caller,
                  flushes, queries, writes, stdout, summary >>

\* ------------------------------------------------------------- scanner
\* scanner.Scan returns the next line of the stream (any line: the stream
\* is the input), or stops at the end of the stream or at a read error;
\* once stopped it returns false for good.  Which of the two stopped it is
\* seen only when Import reads scanner.Err.
CanScan == scanEnd = "" /\ Len(consumed) < MaxLines

\* ------------------------------------------------------------- processDDL
\* Mutant of IsMarker: any comment line ends phase 1.
IsMarker_AnyComment(line) == HasPrefix(line, "#")

IsMarker(line) == HasPrefix(line, "# DML")
IsComment(line) == HasPrefix(line, "#")
IsBlank(line) == TrimSpace(line) = ""

\* Mutant of DDLQuery: the first command found is kept.
DDLQuery_FirstWins(query, line) ==
  IF IsComment(line) \/ IsBlank(line) \/ query # "" THEN query ELSE line

\* createDatabaseQuery after the loop body of processDDL has handled a line
\* that is not the marker.
DDLQuery(query, line) ==
  IF IsComment(line) \/ IsBlank(line) THEN query ELSE line

\* createDatabaseQuery after processDDL, entered with query, has scanned the
\* lines of segment, which holds no marker, in order.
RECURSIVE ProcessDDLOn(_, _)
ProcessDDLOn(query, segment) ==
  IF segment = <<>> THEN query
  ELSE ProcessDDLOn(DDLQuery(query, Head(segment)), Tail(segment))

\* One turn of processDDL's loop: a line (one of alphabet) is scanned.
ProcessDDLLineOf(alphabet) ==
  /\ pc = "ddl"
  /\ CanScan
  /\ \E line \in alphabet :
       /\ consumed' = Append(consumed, line)
       /\ IF IsMarker(line)
          THEN /\ pc' = "dml_begin"
               /\ createDatabaseQuery' = createDatabaseQuery
          ELSE /\ pc' = "ddl"
               /\ createDatabaseQuery' = DDLQuery(createDatabaseQuery, line)
  /\ UNCHANGED << config, scanEnd, database, retentionPolicy, batch,
                  totalInserts, failedInserts, totalCommands,
                  throttlePointsWritten, lastWrite, now, caller, flushes,
                  outputVars >>

ProcessDDLLine == ProcessDDLLineOf(Lines)

\* processDDL's loop ends because the scanner stops: no marker was found.
ProcessDDLEnd ==
  /\ pc = "ddl"
  /\ scanEnd = ""
  /\ scanEnd' = "stopped"
  /\ pc' = "dml_begin"
  /\ UNCHANGED << config, consumed, importerVars, now, caller, flushes,
                  outputVars >>

\* ------------------------------------------------------------- processDML
\* Mutant of OverrideQuery: the override is not applied to the command.
OverrideQuery_Keep(query, dboverride) == query

\* The schema command processDML executes: the override replaces it.
OverrideQuery(query, dboverride) ==
  IF dboverride # "" THEN "CREATE DATABASE " \o dboverride ELSE query

\* Importer.database once processDML has applied the override.
OverrideDatabase(db, dboverride) ==
  IF dboverride # "" THEN dboverride ELSE db

\* Importer.retentionPolicy once processDML has applied the override.
OverrideRetentionPolicy(rp, rpoverride) ==
  IF rpoverride # "" THEN rpoverride ELSE rp

\* Import primes lastWrite, then processDML up to its loop: the overrides
\* and queryExecutor, whose transport error is only logged.
BeginDML ==
  /\ pc = "dml_begin"
  /\ lastWrite' = now
  /\ createDatabaseQuery' =
       OverrideQuery(createDatabaseQuery, config.DestinationDatabase)
  /\ database' = OverrideDatabase(database, config.DestinationDatabase)
  /\ totalCommands' = totalCommands + 1
  /\ \E failed \in BOOLEAN :
       queries' = Append(queries, [command |-> createDatabaseQuery',
                                   database |-> database',
                                   failed |-> failed,
                                   after |-> Len(writes)])
  /\ retentionPolicy' =
       OverrideRetentionPolicy(retentionPolicy, config.RetentionPolicy)
  /\ pc' = "dml"
  /\ UNCHANGED << config, consumed, scanEnd, batch, totalInserts,
                  failedInserts, throttlePointsWritten, now, caller, flushes,
                  writes, stdout, summary, result >>

\* The value of a context directive as processDML takes it.
DirectiveValue(line) == TrimSpace(Split(line, ":")[2])

\* Mutant of NextDatabase: the directive is taken whatever the override.
NextDatabase_NoOverrideTest(db, line, dboverride) ==
  IF HasPrefix(line, "# CONTEXT-DATABASE:") THEN DirectiveValue(line) ELSE db

\* Importer.database after processDML's loop body has seen a line.
NextDatabase(db, line, dboverride) ==
  IF dboverride = "" /\ HasPrefix(line, "# CONTEXT-DATABASE:")
  THEN DirectiveValue(line) ELSE db

\* Mutant of NextRetentionPolicy: the directive is taken whatever the
\* override.
NextRetentionPolicy_NoOverrideTest(rp, line, rpoverride) ==
  IF HasPrefix(line, "# CONTEXT-RETENTION-POLICY:")
  THEN DirectiveValue(line) ELSE rp

\* Importer.retentionPolicy after processDML's loop body has seen a line.
NextRetentionPolicy(rp, line, rpoverride) ==
  IF rpoverride = "" /\ HasPrefix(line, "# CONTEXT-RETENTION-POLICY:")
  THEN DirectiveValue(line) ELSE rp

\* Mutant of IsDataLine: blank lines are batched too.
IsDataLine_KeepBlank(line) == ~IsComment(line)

\* Whether processDML hands the line to batchAccumulator.
IsDataLine(line) == ~IsComment(line) /\ ~IsBlank(line)

\* Mutant of BatchFull: the batch is written only once over its capacity.
BatchFull_Over(b) == Len(b) > batchSize

\* batchAccumulator's test after the append.
BatchFull(b) == Len(b) = batchSize

\* One turn of processDML's loop: a line (one of alphabet) is scanned; a
\* data line goes through batchAccumulator, which calls batchWrite when the
\* batch is full.
ProcessDMLLineOf(alphabet) ==
  /\ pc = "dml"
  /\ CanScan
  /\ \E line \in alphabet :
       /\ consumed' = Append(consumed, line)
       /\ database' = NextDatabase(database, line, config.DestinationDatabase)
       /\ retentionPolicy' =
            NextRetentionPolicy(retentionPolicy, line, config.RetentionPolicy)
       /\ IF IsDataLine(line)
          THEN /\ batch' = Append(batch, line)
               /\ IF BatchFull(batch')
                  THEN /\ pc' = "check"
                       /\ caller' = "batchAccumulator"
                       /\ flushes' = flushes + 1
                  ELSE UNCHANGED << pc, caller, flushes >>
          ELSE UNCHANGED << batch, pc, caller, flushes >>
  /\ UNCHANGED << config, scanEnd, createDatabaseQuery, totalInserts,
                  failedInserts, totalCommands, throttlePointsWritten,
                  lastWrite, now, outputVars >>

ProcessDMLLine == ProcessDMLLineOf(Lines)

\* processDML's loop ends (the scanner stops now, or had stopped in
\* processDDL) and batchWrite is called one last time.
ProcessDMLEnd ==
  /\ pc = "dml"
  /\ scanEnd' = "stopped"
  /\ pc' = "check"
  /\ caller' = "processDML"
  /\ flushes' = flushes + 1
  /\ UNCHANGED << config, consumed, importerVars, now, outputVars >>

\* ------------------------------------------------------------- batchWrite
\* Mutant of CurrentPPS: the elapsed time is not taken into the rate.
CurrentPPS_NoClock(points, since) == points

\* currentPPS: the accumulated points over the seconds since lastWrite,
\* cut to an integer; the accumulated points when no time has passed.
CurrentPPS(points, since) ==
  IF since > 0 THEN (points * UnitsPerSecond) \div since ELSE points

\* Mutant of OverRate: the limit 0 is a limit like any other.
OverRate_NoZeroTest(currentPPS, pps) == currentPPS > pps

\* batchWrite's test for waiting and retrying.
OverRate(currentPPS, pps) == currentPPS > pps /\ pps # 0

\* The readings a clock that reads `now` can give next, none later than
\* limit: time does not run backwards.
ClockUpTo(limit) == now..(IF limit > now THEN limit ELSE now)

\* batchWrite up to its rate test: the batch length is added, the clock is
\* read (no later than limit), and the call either waits for the ticker or
\* goes on to the write.
BatchWriteCheckBy(limit) ==
  /\ pc = "check"
  /\ throttlePointsWritten' = throttlePointsWritten + Len(batch)
  /\ \E t \in ClockUpTo(limit) :
       /\ now' = t
       /\ pc' = IF OverRate(CurrentPPS(throttlePointsWritten', now' - lastWrite),
                            config.PPS)
                THEN "wait" ELSE "send"
  /\ UNCHANGED << config, consumed, scanEnd, database, retentionPolicy,
                  createDatabaseQuery, batch, totalInserts, failedInserts,
                  totalCommands, lastWrite, caller, flushes, outputVars >>

BatchWriteCheck == BatchWriteCheckBy(MaxClock)

\* Mutant of ThrottleWait: the batch length is not taken back out.
ThrottleWait_NoSubtract ==
  /\ pc = "wait"
  /\ pc' = "check"
  /\ UNCHANGED << config, consumed, scanEnd, importerVars, now, caller,
                  flushes, outputVars >>

\* The tick arrives: the batch length is taken back out and batchWrite is
\* called again.
ThrottleWait ==
  /\ pc = "wait"
  /\ throttlePointsWritten' = throttlePointsWritten - Len(batch)
  /\ pc' = "check"
  /\ UNCHANGED << config, consumed, scanEnd, database, retentionPolicy,
                  createDatabaseQuery, batch, totalInserts, failedInserts,
                  totalCommands, lastWrite, now, caller, flushes, outputVars >>

\* fmt.Println of the joined batch.
Printed(b) == Join(b, "\n") \o "\n"

\* failedInserts and totalInserts after a write of batch b.
FailedAfter(n, b, failed) == IF failed THEN n + Len(b) ELSE n
InsertsAfter(n, b, failed) == IF failed THEN n ELSE n + Len(b)

\* Mutant of BatchAfter: batchAccumulator does not truncate the batch.
BatchAfter_NoTruncate(b, from) == b

\* Importer.batch once the caller of batchWrite has it back:
\* batchAccumulator truncates it, processDML returns.
BatchAfter(b, from) == IF from = "batchAccumulator" THEN <<>> ELSE b

\* Mutant of ResetWindow: the count of the rate window is kept.
ResetWindow_KeepCount ==
  /\ throttlePointsWritten' = throttlePointsWritten
  /\ \E t \in ClockUpTo(MaxClock) :
       /\ now' = t
       /\ lastWrite' = t

\* The end of batchWrite: the count of the rate window goes back to 0 and
\* lastWrite is the clock's reading then.
ResetWindow ==
  /\ throttlePointsWritten' = 0
  /\ \E t \in ClockUpTo(MaxClock) :
       /\ now' = t
       /\ lastWrite' = t

\* batchWrite from the transport write on: the write and its outcome, the
\* counters, standard output, the reset of the rate window.
TransportWrite ==
  /\ \E failed \in BOOLEAN :
       /\ writes' = Append(writes, [body |-> Join(batch, "\n"),
                                    points |-> Len(batch),
                                    database |-> database,
                                    retentionPolicy |-> retentionPolicy,
                                    failed |-> failed,
                                    at |-> now])
       /\ stdout' = IF failed THEN stdout \o Printed(batch) ELSE stdout
       /\ failedInserts' = FailedAfter(failedInserts, batch, failed)
       /\ totalInserts' = InsertsAfter(totalInserts, batch, failed)
  /\ ResetWindow
  /\ batch' = BatchAfter(batch, caller)

\* The write of a full batch, and the return to batchAccumulator and to
\* processDML's loop.
BatchWriteSend ==
  /\ pc = "send"
  /\ caller = "batchAccumulator"
  /\ TransportWrite
  /\ pc' = "dml"
  /\ UNCHANGED << config, consumed, scanEnd, database, retentionPolicy,
                  createDatabaseQuery, totalCommands, caller, flushes,
                  queries, summary, result >>

\* ------------------------------------------------------------- Import's end
\* Mutant of InsertError: the plural whatever the count.
InsertError_AlwaysPlural(n) == ToString(n) \o " points were not inserted"

\* The error Import returns for n failed inserts.
InsertError(n) ==
  ToString(n) \o " point" \o (IF n > 1 THEN "s were" ELSE " was")
    \o " not inserted"

\* What Import returns after processDML.
ImportResult(scan, failed) ==
  IF scan = "err" THEN "reading standard input: read error"
  ELSE IF failed > 0 THEN InsertError(failed)
  ELSE "nil"

\* The write of processDML's last batchWrite, and Import after processDML:
\* scanner.Err, the failed inserts, the deferred summary.
ImportReturn ==
  /\ pc = "send"
  /\ caller = "processDML"
  /\ TransportWrite
  /\ \E how \in {"eof", "err"} : scanEnd' = how
  /\ result' = ImportResult(scanEnd', failedInserts')
  /\ summary' = DeferredSummary(totalCommands, totalInserts', failedInserts')
  /\ pc' = "done"
  /\ UNCHANGED << config, consumed, database, retentionPolicy,
                  createDatabaseQuery, totalCommands, caller, flushes,
                  queries >>

Next ==
  \/ ImportSetup
  \/ ProcessDDLLine
  \/ ProcessDDLEnd
  \/ BeginDML
  \/ ProcessDMLLine
  \/ ProcessDMLEnd
  \/ BatchWriteCheck
  \/ ThrottleWait
  \/ BatchWriteSend
  \/ ImportReturn

Spec == Init /\ [][Next]_vars

\* ------------------------------------------------------------- other inputs
\* The same Importer on streams whose directives carry further colons in
\* their value (and whitespace around it), with a negative Config.PPS among
\* the limits and no override.  A point before the marker is a schema
\* command.
WideLines ==
  { "# DML", " ", "# CONTEXT-DATABASE: db:1 ",
    "# CONTEXT-RETENTION-POLICY:rp:1:x", "m v=1" }
SignedPPSValues == {-1, 0, 2}

InitWide ==
  InitWith([PPS : SignedPPSValues,
            DestinationDatabase : {""},
            RetentionPolicy : {""}])

WideDDLLine == ProcessDDLLineOf(WideLines)
WideDMLLine == ProcessDMLLineOf(WideLines)

NextWide ==
  \/ ImportSetup
  \/ WideDDLLine
  \/ ProcessDDLEnd
  \/ BeginDML
  \/ WideDMLLine
  \/ ProcessDMLEnd
  \/ BatchWriteCheck
  \/ ThrottleWait
  \/ BatchWriteSend
  \/ ImportReturn

WideSpec == InitWide /\ [][NextWide]_vars

\* ------------------------------------------------------------- the clock keeps advancing
\* The same Importer under a positive limit, with a clock that is not
\* stopped at MaxClock while a flush waits: a rate check may read it up to
\* PassAfter units after lastWrite, when int(points / seconds) is at most 1
\* for every batch up to the capacity, so that any positive limit lets the
\* flush through.
LiveLines == { "# DML", "m v=1" }
LivePPSValues == {1, 2}
PassAfter == batchSize * UnitsPerSecond

InitLive ==
  InitWith([PPS : LivePPSValues,
            DestinationDatabase : {""},
            RetentionPolicy : {""}])

LiveDDLLine == ProcessDDLLineOf(LiveLines)
LiveDMLLine == ProcessDMLLineOf(LiveLines)
LiveCheck == BatchWriteCheckBy(lastWrite + PassAfter)

\* A rate check that reads the clock later than the reading before it.
ClockAdvances == LiveCheck /\ now' > now

NextLive ==
  \/ ImportSetup
  \/ LiveDDLLine
  \/ ProcessDDLEnd
  \/ BeginDML
  \/ LiveDMLLine
  \/ ProcessDMLEnd
  \/ LiveCheck
  \/ ThrottleWait
  \/ BatchWriteSend
  \/ ImportReturn

\* The ticker keeps ticking (a waiting call gets its tick and retries), the
\* retry makes its rate check, and the clock keeps advancing: of the rate
\* checks of a flush that retries for ever, some read a later time.
LiveSpec ==
  /\ InitLive
  /\ [][NextLive]_vars
  /\ WF_vars(ThrottleWait)
  /\ WF_vars(LiveCheck)
  /\ SF_vars(ClockAdvances)

\* ------------------------------------------------------------- the input, as the claims read it
\* Index in h of the first line beginning with the marker, 0 when none.
RECURSIVE FirstMarkerFrom(_, _)
FirstMarkerFrom(h, i) ==
  IF i > Len(h) THEN 0
  ELSE IF HasPrefix(h[i], "# DML") THEN i ELSE FirstMarkerFrom(h, i + 1)
FirstMarker(h) == FirstMarkerFrom(h, 1)

\* The lines before the first marker, and those after it.
SchemaSection(h) ==
  LET m == FirstMarker(h) IN IF m = 0 THEN h ELSE SubSeq(h, 1, m - 1)
DataSection(h) ==
  LET m == FirstMarker(h) IN IF m = 0 THEN <<>> ELSE SubSeq(h, m + 1, Len(h))

StartsWithHash(line) == Len(line) > 0 /\ SubSeq(line, 1, 1) = "#"
AllBlank(line) ==
  \A i \in 1..Len(line) : SubSeq(line, i, i) \in {" ", "\t", "\r"}
Payload(line) == ~StartsWithHash(line) /\ ~AllBlank(line)

\* The data lines of a stream: the lines after the first marker that are
\* neither blank nor start with #.
DataLinesOf(h) == SelectSeq(DataSection(h), Payload)

\* The last line before the first marker that is neither blank nor starts
\* with #; the empty string when there is none.
RECURSIVE LastPayload(_, _)
LastPayload(section, i) ==
  IF i = 0 THEN ""
  ELSE IF Payload(section[i]) THEN section[i] ELSE LastPayload(section, i - 1)
LastCommand(h) ==
  LET section == SchemaSection(h) IN LastPayload(section, Len(section))

\* The text of a directive line after its prefix (which ends at the line's
\* first colon), trimmed.
ValueAfter(line, prefix) ==
  TrimSpace(SubSeq(line, Len(prefix) + 1, Len(line)))

\* For each data line of the section, in order, the value of the most recent
\* directive with this prefix that precedes it; `current` while none does.
RECURSIVE ContextOf(_, _, _)
ContextOf(section, prefix, current) ==
  IF section = <<>> THEN <<>>
  ELSE LET line == Head(section)
       IN  IF HasPrefix(line, prefix)
           THEN ContextOf(Tail(section), prefix, ValueAfter(line, prefix))
           ELSE IF Payload(line)
           THEN <<current>> \o ContextOf(Tail(section), prefix, current)
           ELSE ContextOf(Tail(section), prefix, current)

\* The value of the most recent directive with this prefix in the section;
\* the empty string when there is none.
RECURSIVE LastContext(_, _)
LastContext(section, prefix) ==
  IF section = <<>> THEN ""
  ELSE IF HasPrefix(section[Len(section)], prefix)
  THEN ValueAfter(section[Len(section)], prefix)
  ELSE LastContext(SubSeq(section, 1, Len(section) - 1), prefix)

\* Points sent by the writes i..j of the log.
RECURSIVE PointsIn(_, _, _)
PointsIn(log, i, j) ==
  IF i > j THEN 0 ELSE log[i].points + PointsIn(log, i + 1, j)

\* A run that got past its set-up is over; it is over at the end of the
\* stream.
Completed == pc = "done" /\ scanEnd # ""
EndOfStream == pc = "done" /\ scanEnd = "eof"

\* ------------------------------------------------------------- claims
\* C1: after a run that reaches the end of the stream, totalInserts +
\* failedInserts is the number of data lines of the stream (the lines after
\* the first marker that are neither blank nor start with #).
C1_AllDataLinesCounted ==
  EndOfStream =>
    totalInserts + failedInserts = Len(DataLinesOf(consumed))

\* C1 witness: a finished run whose data lines fill the batch exactly, all
\* of them failed, with a blank line in the data section.
C1_Witness ==
  /\ EndOfStream
  /\ Len(DataLinesOf(consumed)) = batchSize
  /\ failedInserts = batchSize
  /\ Len(DataSection(consumed)) > batchSize

\* C2 (as claimed): with no database override every data line is written
\* with the database of the most recent context-database directive before
\* it in the stream (the Importer's empty database when none precedes it),
\* and likewise the retention policy with no retention-policy override.
C2_DirectiveOnlyForLaterLines ==
  LET section == DataSection(consumed)
      dbs == ContextOf(section, "# CONTEXT-DATABASE:", "")
      rps == ContextOf(section, "# CONTEXT-RETENTION-POLICY:", "")
  IN  \A k \in 1..Len(writes) :
        \A n \in 1..writes[k].points :
          LET i == PointsIn(writes, 1, k - 1) + n
          IN  /\ config.DestinationDatabase = "" =>
                   writes[k].database = dbs[i]
              /\ config.RetentionPolicy = "" =>
                   writes[k].retentionPolicy = rps[i]

\* C3: with a database override, every transport write (and the schema
\* command) goes to the override, and from the start of processDML's loop
\* on Importer.database is the override, whatever directives were read.
C3_DatabaseOverrideWins ==
  config.DestinationDatabase # "" =>
    /\ \A k \in 1..Len(writes) :
         writes[k].database = config.DestinationDatabase
    /\ \A k \in 1..Len(queries) :
         queries[k].database = config.DestinationDatabase
    /\ pc \in {"dml", "check", "wait", "send"} \/ Completed =>
         database = config.DestinationDatabase

\* C3 witness: an overridden run has written a point that follows a
\* context-database directive of the data section.
C3_Witness ==
  /\ config.DestinationDatabase # ""
  /\ Completed
  /\ \E k \in 1..Len(writes) : writes[k].points > 0
  /\ \E i \in 1..Len(DataSection(consumed)) :
       /\ HasPrefix(DataSection(consumed)[i], "# CONTEXT-DATABASE:")
       /\ i < Len(DataSection(consumed))
       /\ Payload(DataSection(consumed)[i + 1])

\* Import is in processDML's loop or in a batchWrite; or past them too.
InLoop == pc \in {"dml", "check", "wait", "send"}
InPhase2 == InLoop \/ Completed

\* The schema command and the database as the stream and the database
\* override alone determine them.
SchemaCommandOf(h, dboverride) ==
  IF dboverride # "" THEN "CREATE DATABASE " \o dboverride ELSE LastCommand(h)
DatabaseOf(h, dboverride) ==
  IF dboverride # "" THEN dboverride
  ELSE LastContext(DataSection(h), "# CONTEXT-DATABASE:")

\* C4: with a retention-policy override, every transport write carries the
\* override and, in phase 2, Importer.retentionPolicy is the override
\* whatever directives were read; all through processDML's loop and its
\* writes the database and the schema command are those the stream read so
\* far and the database override determine, with or without a
\* retention-policy override.
C4_RetentionOverrideWins ==
  /\ config.RetentionPolicy # "" =>
       /\ \A k \in 1..Len(writes) :
            writes[k].retentionPolicy = config.RetentionPolicy
       /\ InPhase2 => retentionPolicy = config.RetentionPolicy
  /\ InLoop =>
       /\ database = DatabaseOf(consumed, config.DestinationDatabase)
       /\ createDatabaseQuery =
            SchemaCommandOf(consumed, config.DestinationDatabase)
       /\ queries[1].command = createDatabaseQuery

\* C4 witness: a run with a retention-policy override and no database
\* override has written a point after a retention-policy directive and a
\* database directive.
C4_Witness ==
  /\ config.RetentionPolicy # ""
  /\ config.DestinationDatabase = ""
  /\ Completed
  /\ database = "foo"
  /\ \E i \in 1..Len(DataSection(consumed)) :
       HasPrefix(DataSection(consumed)[i], "# CONTEXT-RETENTION-POLICY:")
  /\ \E k \in 1..Len(writes) :
       writes[k].points > 0 /\ writes[k].database = "foo"

\* C5: a run that opens its input issues exactly one schema command, before
\* any batch write; its text is CREATE DATABASE <override> with a database
\* override and else the command phase 1 captured; whether or not the
\* transport fails it, Import goes on into phase 2 and to its final flush.
C5_OneSchemaCommandFirst ==
  /\ Len(writes) > 0 => Len(queries) = 1
  /\ \A k \in 1..Len(queries) : queries[k].after = 0
  /\ Len(queries) > 0 => InPhase2
  /\ Completed =>
       /\ totalCommands = 1
       /\ Len(queries) = 1
       /\ queries[1].command =
            SchemaCommandOf(consumed, config.DestinationDatabase)
       /\ Len(writes) >= 1

\* C5 witness: the transport failed the captured schema command and the
\* run went on to insert points.
C5_Witness ==
  /\ Completed
  /\ config.DestinationDatabase = ""
  /\ Len(queries) = 1
  /\ queries[1].failed
  /\ queries[1].command = "CREATE DATABASE foo"
  /\ totalInserts > 0

\* C6: a stream with n data lines read to its end makes floor(n / batchSize)
\* + 1 calls of batchWrite from its call sites, each ending in one transport
\* write, whatever the writes' outcomes.
C6_FlushCount ==
  EndOfStream =>
    /\ flushes = (Len(DataLinesOf(consumed)) \div batchSize) + 1
    /\ Len(writes) = flushes

\* C6 witness: one more data line than the capacity, two flushes, the full
\* batch failed and the last flush of one line succeeded.
C6_Witness ==
  /\ EndOfStream
  /\ Len(DataLinesOf(consumed)) = batchSize + 1
  /\ flushes = 2
  /\ writes[1].failed /\ writes[1].points = batchSize
  /\ ~writes[2].failed /\ writes[2].points = 1

\* C6 witness of the empty forced flush: the data lines fill the batch
\* exactly and the flush at the end of the stream writes no line.
C6_EmptyFlush ==
  /\ EndOfStream
  /\ Len(DataLinesOf(consumed)) = batchSize
  /\ flushes = 2
  /\ writes[2].points = 0

\* The complete lines of a text: its pieces between newlines, each line
\* ended by its newline.
LinesOfText(text) ==
  LET pieces == Split(text, "\n")
  IN  IF pieces[Len(pieces)] = ""
      THEN SubSeq(pieces, 1, Len(pieces) - 1) ELSE pieces

\* What a step has added to standard output.
PrintedBy(before, after) == SubSeq(after, Len(before) + 1, Len(after))

\* C7 (as claimed): a failed batch write adds the batch length to
\* failedInserts, leaves totalInserts alone and prints exactly the lines of
\* the batch, in order, to standard output; a successful one adds the batch
\* length to totalInserts, leaves failedInserts alone and prints nothing.
C7_WriteBookkeeping ==
  [][pc = "send" =>
       LET w == writes'[Len(writes')]
           printed == PrintedBy(stdout, stdout')
       IN  IF w.failed
           THEN /\ failedInserts' = failedInserts + Len(batch)
                /\ totalInserts' = totalInserts
                /\ LinesOfText(printed) = batch
           ELSE /\ totalInserts' = totalInserts + Len(batch)
                /\ failedInserts' = failedInserts
                /\ printed = ""]_vars

\* C7 for the batches that hold a line: the same statement, which the code
\* meets for them (the empty batch of a forced flush is where it fails).
C7_NonEmptyBatches ==
  [][pc = "send" /\ batch # <<>> =>
       LET w == writes'[Len(writes')]
           printed == PrintedBy(stdout, stdout')
       IN  IF w.failed
           THEN /\ failedInserts' = failedInserts + Len(batch)
                /\ totalInserts' = totalInserts
                /\ LinesOfText(printed) = batch
           ELSE /\ totalInserts' = totalInserts + Len(batch)
                /\ failedInserts' = failedInserts
                /\ printed = ""]_vars

\* The failure the claim C8 names for n failed inserts.
NotInserted(n) ==
  IF n = 1 THEN "1 point was not inserted"
  ELSE ToString(n) \o " points were not inserted"

\* C8 (as claimed): a run that ends with failed inserts returns the failure
\* that carries their count, in the right plural form; a run with none and
\* no read error returns success.
C8_FailureCarriesCount ==
  Completed =>
    /\ failedInserts > 0 => result = NotInserted(failedInserts)
    /\ failedInserts = 0 /\ scanEnd # "err" => result = "nil"

\* C8 (amended): the same when the scanner met no read error; after a read
\* error Import returns the read error, a failure that does not carry the
\* count, whatever the number of failed inserts.
C8_FailureUnlessReadError ==
  Completed =>
    /\ scanEnd # "err" /\ failedInserts > 0 =>
         result = NotInserted(failedInserts)
    /\ scanEnd # "err" /\ failedInserts = 0 => result = "nil"
    /\ scanEnd = "err" => result = "reading standard input: read error"

\* C8 witness: a run read to the end of its stream whose one-line batch
\* failed, returning the singular form.
C8_Witness ==
  /\ EndOfStream
  /\ failedInserts = 1
  /\ result = "1 point was not inserted"

\* C8 witness of the plural form and of the read error that hides the
\* count.
C8_PluralWitness ==
  /\ EndOfStream
  /\ failedInserts = batchSize
  /\ result = ToString(batchSize) \o " points were not inserted"
C8_ReadErrorWitness ==
  /\ Completed
  /\ scanEnd = "err"
  /\ failedInserts > 0
  /\ result = "reading standard input: read error"

\* C9 (as claimed): a run in which an insert was attempted (succeeded or
\* failed) logs the three final counters when it ends.
C9_CountersReported ==
  Completed /\ totalInserts + failedInserts > 0 =>
    summary = << "Processed " \o ToString(totalCommands) \o " commands",
                 "Processed " \o ToString(totalInserts) \o " inserts",
                 "Failed " \o ToString(failedInserts) \o " inserts" >>

\* C9, what the code does: the counters are logged exactly when an insert
\* succeeded.
C9_ReportedIffInserted ==
  Completed =>
    IF totalInserts > 0
    THEN summary = << "Processed " \o ToString(totalCommands) \o " commands",
                      "Processed " \o ToString(totalInserts) \o " inserts",
                      "Failed " \o ToString(failedInserts) \o " inserts" >>
    ELSE summary = <<>>

\* C10 (as claimed): with a positive limit, the points of any run of
\* consecutive transport writes exceed the limit times the time from the
\* first to the last of them by at most one batch (batchSize points).  In
\* clock units: points * UnitsPerSecond <= PPS * units + batchSize *
\* UnitsPerSecond.
C10_RateBound ==
  config.PPS > 0 =>
    \A i \in 1..Len(writes) : \A j \in i..Len(writes) :
      PointsIn(writes, i, j) * UnitsPerSecond
        <= config.PPS * (writes[j].at - writes[i].at)
             + batchSize * UnitsPerSecond

\* C11: with a points-per-second limit of 0 no flush ever waits on the
\* throttle timer: a flush under way is at its first rate check or at its
\* transport write, whatever the batch length and the elapsed time.
C11_NoWaitWhenUnlimited ==
  config.PPS = 0 => pc # "wait"

\* C11 witness: with the limit 0, a full batch goes to its transport write
\* with no time elapsed since the last write (the rate is then the raw
\* count, above 0).
C11_Witness ==
  /\ config.PPS = 0
  /\ pc = "send"
  /\ Len(batch) = batchSize
  /\ throttlePointsWritten = batchSize
  /\ now = lastWrite

\* C11 witness with time elapsed: the rate is the count over the seconds.
C11_ElapsedWitness ==
  /\ config.PPS = 0
  /\ pc = "send"
  /\ Len(batch) = batchSize
  /\ now > lastWrite

\* The text between the first colon of a line and its second (its end when
\* it has no second colon), trimmed.
RECURSIVE UpToColon(_)
UpToColon(s) ==
  IF s = "" \/ SubSeq(s, 1, 1) = ":" THEN ""
  ELSE SubSeq(s, 1, 1) \o UpToColon(SubSeq(s, 2, Len(s)))
FirstField(line, prefix) ==
  TrimSpace(UpToColon(SubSeq(line, Len(prefix) + 1, Len(line))))

\* C12 (as claimed): in phase 2, with no database override the database is
\* the whole text after the first colon of the most recent
\* context-database line, trimmed, further colons included; likewise the
\* retention policy with no retention-policy override.
C12_WholeValueAfterFirstColon ==
  InLoop =>
    /\ config.DestinationDatabase = "" =>
         database = LastContext(DataSection(consumed), "# CONTEXT-DATABASE:")
    /\ config.RetentionPolicy = "" =>
         retentionPolicy =
           LastContext(DataSection(consumed), "# CONTEXT-RETENTION-POLICY:")

\* C12, what the code does: right after a directive line is read, the
\* value taken is the text between the line's first and second colon.
C12_ValueUpToSecondColon ==
  InLoop /\ DataSection(consumed) # <<>> =>
    LET line == consumed[Len(consumed)]
    IN  /\ HasPrefix(line, "# CONTEXT-DATABASE:") =>
             database = FirstField(line, "# CONTEXT-DATABASE:")
        /\ HasPrefix(line, "# CONTEXT-RETENTION-POLICY:") =>
             retentionPolicy = FirstField(line, "# CONTEXT-RETENTION-POLICY:")

\* C19 (as claimed): a flush is waiting on the throttle timer only when the
\* limit is positive and the current rate exceeds it; with a limit that is
\* not positive, negative included, no flush ever waits.
C19_WaitsOnlyForPositiveLimit ==
  pc = "wait" =>
    /\ config.PPS > 0
    /\ CurrentPPS(throttlePointsWritten, now - lastWrite) > config.PPS

\* C19, what the code does: a flush waits exactly when the limit is not 0
\* and the current rate exceeds it, so with a negative limit every flush
\* waits, the empty one included.
C19_WaitsForNonZeroLimit ==
  /\ pc = "wait" =>
       /\ config.PPS # 0
       /\ CurrentPPS(throttlePointsWritten, now - lastWrite) > config.PPS
  /\ config.PPS < 0 => pc # "send" /\ writes = <<>>

\* C13: during and after phase 1 the pending schema command is the last
\* line before the first marker that is neither blank nor starts with #
\* (empty when there is none), which is what processDDL's loop leaves; and
\* when the lines before the marker are a segment fed twice in a row, it is
\* the command processDDL captures from the segment fed once.
C13_LastCommandWins ==
  pc \in {"ddl", "dml_begin"} =>
    LET section == SchemaSection(consumed)
        half == Len(section) \div 2
    IN  /\ createDatabaseQuery = LastCommand(consumed)
        /\ createDatabaseQuery = ProcessDDLOn("", section)
        /\ /\ Len(section) = 2 * half
           /\ SubSeq(section, 1, half) = SubSeq(section, half + 1, 2 * half)
           => createDatabaseQuery = ProcessDDLOn("", SubSeq(section, 1, half))

\* C13 witness: phase 1 is over after a segment of two different commands
\* fed twice; the pending command is the second of them.
C13_Witness ==
  /\ pc = "dml_begin"
  /\ LET section == SchemaSection(consumed)
     IN  /\ Len(section) = 4
         /\ SubSeq(section, 1, 2) = SubSeq(section, 3, 4)
         /\ Payload(section[1]) /\ Payload(section[2])
         /\ section[1] # section[2]
         /\ createDatabaseQuery = section[2]

\* C13 witness of the empty command: phase 1 is over at the marker after
\* only blank and comment lines.
C13_EmptyWitness ==
  /\ pc = "dml_begin"
  /\ Len(SchemaSection(consumed)) >= 2
  /\ FirstMarker(consumed) > 0
  /\ createDatabaseQuery = ""

\* The lines handed to batchAccumulator so far: those the transport writes
\* carried and, while a run is under way, those waiting in the batch.
Batched ==
  PointsIn(writes, 1, Len(writes)) + (IF InLoop THEN Len(batch) ELSE 0)

\* C14: phase 1 goes on only while no marker was read and batches nothing;
\* when it stops with the scanner still going, the line it read last is the
\* first marker; in phase 2 the lines batched are as many as the data lines
\* after the first marker (so none before it, not the marker, and phase 2
\* starts right after it).  When the scanner stopped with no marker read,
\* phase 2 reads no line and batches nothing, and at the end of the stream
\* the run returns success with totalInserts + failedInserts = 0.
C14_PhaseOneStopsAtMarker ==
  /\ pc = "ddl" => FirstMarker(consumed) = 0
  /\ pc \in {"ddl", "dml_begin"} => batch = <<>> /\ writes = <<>>
  /\ pc = "dml_begin" /\ scanEnd = "" => FirstMarker(consumed) = Len(consumed)
  /\ InPhase2 => Batched = Len(DataLinesOf(consumed))
  /\ (pc = "dml_begin" \/ InLoop) /\ FirstMarker(consumed) = 0 =>
       scanEnd = "stopped"
  /\ EndOfStream /\ FirstMarker(consumed) = 0 =>
       /\ result = "nil"
       /\ totalInserts + failedInserts = 0
       /\ Len(writes) = 1 /\ writes[1].points = 0

\* C14 witness: a run read to the end of its stream, with a command before
\* the marker and one data line after it, has batched one line.
C14_Witness ==
  /\ EndOfStream
  /\ FirstMarker(consumed) = 2
  /\ Payload(consumed[1])
  /\ Len(DataLinesOf(consumed)) = 1
  /\ totalInserts + failedInserts = 1

\* C14 witness of the stream without a marker: lines that would be data
\* lines after a marker were read, none was batched, the run succeeded.
C14_NoMarkerWitness ==
  /\ EndOfStream
  /\ FirstMarker(consumed) = 0
  /\ \E i \in 1..Len(consumed) : consumed[i] = "m v=1"
  /\ result = "nil"
  /\ totalInserts + failedInserts = 0

\* C15 (as claimed): every flush, at capacity or forced at the end of the
\* stream, leaves the batch empty when it has completed.
C15_BatchEmptyAfterFlush ==
  [][pc = "send" => batch' = <<>>]_vars

\* C15, what the code does: the flush at capacity leaves the batch empty;
\* the forced flush leaves it as it was, lines already sent included.
C15_OnlyCapacityFlushEmpties ==
  [][pc = "send" =>
       batch' = IF caller = "batchAccumulator" THEN <<>> ELSE batch]_vars

\* C16: between flushes, at the start of every flush request (and of every
\* retry) and after the run, the count of the rate window is 0; once a
\* flush has returned, after a write that succeeded or failed, lastWrite is
\* the clock's latest reading, taken no earlier than the write was issued.
C16_WindowResetAfterFlush ==
  /\ pc \in {"start", "ddl", "dml_begin", "dml", "check", "done"} =>
       throttlePointsWritten = 0
  /\ (pc = "dml" \/ Completed) /\ writes # <<>> =>
       /\ lastWrite = now
       /\ lastWrite >= writes[Len(writes)].at

\* C16 witness: a flush of a full batch has returned after a failed write
\* during which the clock advanced; the count is 0 and lastWrite is the
\* later reading.
C16_Witness ==
  /\ pc = "dml"
  /\ writes # <<>>
  /\ writes[Len(writes)].failed
  /\ writes[Len(writes)].points = batchSize
  /\ throttlePointsWritten = 0
  /\ lastWrite = now
  /\ lastWrite > writes[Len(writes)].at

\* C16 witness of the next flush request: it starts with the count 0 after
\* an earlier flush of a full batch.
C16_NextFlushWitness ==
  /\ pc = "check"
  /\ throttlePointsWritten = 0
  /\ batch # <<>>
  /\ writes # <<>>
  /\ writes[Len(writes)].points = batchSize

\* C18: whatever the number of retries before it, a rate check of a flush
\* is made with the count of the rate window equal to the length of the
\* batch: the count is 0 when batchWrite is entered, for the first time or
\* for a retry, and the batch length once it has been added, while the call
\* waits for the tick or goes on to the write.
C18_RetriesDoNotCompound ==
  /\ pc = "check" => throttlePointsWritten = 0
  /\ pc \in {"wait", "send"} => throttlePointsWritten = Len(batch)

\* C18 witness: a flush of a full batch under a positive limit is about to
\* retry (the clock has advanced since the last write, which only a rate
\* check of this flush can have read) with the count back at 0.
C18_Witness ==
  /\ pc = "check"
  /\ config.PPS > 0
  /\ now > lastWrite
  /\ Len(batch) = batchSize
  /\ throttlePointsWritten = 0

\* C18 witness of a check passed with time elapsed: the call goes on to the
\* write with the count at the batch length.
C18_ElapsedWitness ==
  /\ pc = "send"
  /\ config.PPS > 0
  /\ now >= lastWrite + 2
  /\ Len(batch) = batchSize
  /\ throttlePointsWritten = batchSize

\* The lines a transport write carried: the pieces of its body between
\* newlines; none for the write of an empty batch.
LinesOfWrite(w) == IF w.points = 0 THEN <<>> ELSE Split(w.body, "\n")

\* The lines of the writes i.. of the log, in call order.
RECURSIVE SentFrom(_, _)
SentFrom(log, i) ==
  IF i > Len(log) THEN <<>> ELSE LinesOfWrite(log[i]) \o SentFrom(log, i + 1)
SentLines == SentFrom(writes, 1)

C20_BlankWitness ==
  /\ Completed
  /\ Len(writes) = 2
  /\ writes[1].points = batchSize
  /\ Len(DataSection(consumed)) > batchSize
  /\ \E i \in 1..Len(DataSection(consumed)) : DataSection(consumed)[i] = " "

\* C17: with a positive limit and a clock that keeps advancing, every flush
\* request, and every retry of it, eventually passes the rate check and is
\* at its transport write.
C17_FlushEventuallyWrites ==
  (pc \in {"check", "wait"}) ~> (pc = "send")

\* C17 witness: under the limit 1 a full batch, over the limit when no time
\* has elapsed, has passed the rate check at a later reading of the clock.
C17_Witness ==
  /\ pc = "send"
  /\ config.PPS = 1
  /\ Len(batch) = batchSize
  /\ now > lastWrite

\* C17 witness of the wait: the same flush has waited and is retrying.
C17_RetryWitness ==
  /\ pc = "check"
  /\ config.PPS = 1
  /\ Len(batch) = batchSize
  /\ now > lastWrite

====
